---- MODULE Spec2Model ----
(***************************************************************************)
(* ESG-RiskLab: the sentiment delta engine (SentimentAnalyzer) and the     *)
(* retrieval engine (RAGEngine), as state machines over the calls their    *)
(* callers can make.                                                       *)
(*                                                                         *)
(* Floats are modelled as exact rationals [n, d] in lowest terms with      *)
(* d > 0; IEEE rounding is not modelled.                                   *)
(***************************************************************************)
EXTENDS Integers, Sequences, FiniteSets, TLC

VARIABLES
    RISK_THRESHOLDS,   \* config.RISK_THRESHOLDS, read by the scoring code
    classifier_calls,  \* the texts the last call passed to the FinBERT model, in order
    sa_ret,            \* the last SentimentAnalyzer call and what it returned
    vector_stores,     \* RAGEngine.vector_stores: ticker -> the collection its store is bound to
    collections,       \* the collections persisted under persist_directory: name -> documents
    rag_ret            \* the last RAGEngine call and what it returned

sa_vars == <<RISK_THRESHOLDS, classifier_calls, sa_ret>>
rag_vars == <<vector_stores, collections, rag_ret>>

vars == <<RISK_THRESHOLDS, classifier_calls, sa_ret, vector_stores, collections, rag_ret>>

(***************************************************************************)
(* Rationals                                                               *)
(***************************************************************************)
Abs(x) == IF x < 0 THEN -x ELSE x

RECURSIVE Gcd(_, _)
Gcd(a, b) == IF b = 0 THEN a ELSE Gcd(b, a % b)

Rat(n, d) ==
    LET g == Gcd(Abs(n), d)
    IN  [n |-> n \div g, d |-> d \div g]

RatAdd(a, b) == Rat(a.n * b.d + b.n * a.d, a.d * b.d)
RatSub(a, b) == Rat(a.n * b.d - b.n * a.d, a.d * b.d)
RatMul(a, b) == Rat(a.n * b.n, a.d * b.d)
RatDivInt(a, k) == Rat(a.n, a.d * k)
RatLt(a, b) == a.n * b.d < b.n * a.d
RatLe(a, b) == a.n * b.d <= b.n * a.d
RatZero == [n |-> 0, d |-> 1]
RatOne == [n |-> 1, d |-> 1]
RatNeg(a) == [n |-> -a.n, d |-> a.d]

(***************************************************************************)
(* Texts handed to the classifier.  A text is its leading whitespace, its  *)
(* stripped core and its trailing whitespace (lengths), with the label and *)
(* the confidence the loaded FinBERT weights give for it.                  *)
(***************************************************************************)
MinTextLen == 10

LABELS == <<"positive", "negative", "neutral">>

Confidences == {Rat(2, 5), RatOne}

MkText(lead, core, trail, label, conf) ==
    [lead |-> lead, core |-> core, trail |-> trail, label |-> label, conf |-> conf]

ShortTexts ==
    { MkText(0, 0, 0, "neutral", RatOne),
      MkText(0, MinTextLen - 1, 0, "positive", RatOne),
      MkText(1, MinTextLen - 1, 0, "positive", RatOne) }

LongTexts ==
    { MkText(0, MinTextLen, 0, LABELS[i], c) : i \in 1..Len(LABELS), c \in Confidences }

Texts == ShortTexts \cup LongTexts

\* the headlines a news fetch hands over
Headlines ==
    { MkText(0, MinTextLen - 1, 0, "positive", RatOne),
      MkText(0, MinTextLen, 0, "positive", Rat(2, 5)),
      MkText(0, MinTextLen, 0, "negative", Rat(2, 5)),
      MkText(0, MinTextLen, 0, "negative", RatOne),
      MkText(0, MinTextLen, 0, "neutral", RatOne) }

MaxHeadlines == 2

RECURSIVE SeqsUpTo(_, _)
SeqsUpTo(S, n) ==
    IF n = 0 THEN {<<>>}
    ELSE LET shorter == SeqsUpTo(S, n - 1)
         IN  shorter \cup {Append(s, x) : s \in {t \in shorter : Len(t) = n - 1}, x \in S}

HeadlineLists == SeqsUpTo(Headlines, MaxHeadlines)

TextLen(text) == text.lead + text.core + text.trail
StripLen(text) == text.core

(***************************************************************************)
(* SentimentAnalyzer                                                       *)
(***************************************************************************)
\* sentiment_analyzer.py:24: the guard that returns neutral without a forward pass
TooShortAlt(text) == TextLen(text) = 0 \/ StripLen(text) < MinTextLen - 1
TooShort(text) == TextLen(text) = 0 \/ StripLen(text) < MinTextLen

\* sentiment_analyzer.py:45: positive = +1, neutral = 0, negative = -1
sentiment_scores_alt(label) ==
    CASE label = "positive" -> RatOne
      [] label = "neutral"  -> RatOne
      [] label = "negative" -> RatNeg(RatOne)
sentiment_scores(label) ==
    CASE label = "positive" -> RatOne
      [] label = "neutral"  -> RatZero
      [] label = "negative" -> RatNeg(RatOne)

analyze_text(text) ==
    IF TooShort(text)
    THEN [score |-> RatZero, label |-> "neutral", confidence |-> RatZero]
    ELSE [score |-> RatMul(sentiment_scores(text.label), text.conf),
          label |-> text.label,
          confidence |-> text.conf]

\* the forward passes analyze_text makes for one text (lines 28-35)
Invocations(text) == IF TooShort(text) THEN <<>> ELSE <<text>>

analyze_batch(texts) == [i \in 1..Len(texts) |-> analyze_text(texts[i])]

RECURSIVE SumScores(_, _)
SumScores(results, i) ==
    IF i > Len(results) THEN RatZero
    ELSE RatAdd(results[i].score, SumScores(results, i + 1))

RECURSIVE BatchInvocations(_, _)
BatchInvocations(texts, i) ==
    IF i > Len(texts) THEN <<>>
    ELSE Invocations(texts[i]) \o BatchInvocations(texts, i + 1)

calculate_aggregate_sentiment_alt(texts) ==
    IF Len(texts) = 0 THEN RatNeg(RatOne)
    ELSE RatDivInt(SumScores(analyze_batch(texts), 1), Len(texts))
calculate_aggregate_sentiment(texts) ==
    IF Len(texts) = 0 THEN RatZero
    ELSE RatDivInt(SumScores(analyze_batch(texts), 1), Len(texts))

AggregateInvocations(texts) ==
    IF Len(texts) = 0 THEN <<>> ELSE BatchInvocations(texts, 1)

RatMax0(a) == IF RatLt(a, RatZero) THEN RatZero ELSE a

greenwashing_score_alt(delta) == RatMax0(delta)
greenwashing_score_of(delta) == RatDivInt(RatMax0(delta), 2)

risk_level_alt(score, thresholds) ==
    IF RatLe(score, thresholds.low) THEN "Low"
    ELSE IF RatLe(score, thresholds.medium) THEN "Medium"
    ELSE "High"
risk_level_of(score, thresholds) ==
    IF RatLt(score, thresholds.low) THEN "Low"
    ELSE IF RatLt(score, thresholds.medium) THEN "Medium"
    ELSE "High"

sentiment_delta_alt(sec_sentiment, news_sentiment) == RatSub(news_sentiment, sec_sentiment)
sentiment_delta_of(sec_sentiment, news_sentiment) == RatSub(sec_sentiment, news_sentiment)

calculate_sentiment_delta(sec_text, news_titles, thresholds) ==
    LET sec_result == analyze_text(sec_text)
        sec_sentiment == sec_result.score
        news_sentiment == calculate_aggregate_sentiment(news_titles)
        sentiment_delta == sentiment_delta_of(sec_sentiment, news_sentiment)
        greenwashing_score == greenwashing_score_of(sentiment_delta)
    IN  [sec_sentiment |-> sec_sentiment,
         news_sentiment |-> news_sentiment,
         sentiment_delta |-> sentiment_delta,
         greenwashing_score |-> greenwashing_score,
         risk_level |-> risk_level_of(greenwashing_score, thresholds),
         sec_details |-> sec_result,
         news_count |-> Len(news_titles)]

(***************************************************************************)
(* Strings of the retrieval engine are sequences of one-character strings. *)
(***************************************************************************)
UpperLetters ==
    <<"A","B","C","D","E","F","G","H","I","J","K","L","M",
      "N","O","P","Q","R","S","T","U","V","W","X","Y","Z">>
LowerLetters ==
    <<"a","b","c","d","e","f","g","h","i","j","k","l","m",
      "n","o","p","q","r","s","t","u","v","w","x","y","z">>
Digits == {"0","1","2","3","4","5","6","7","8","9"}
Whitespace == {" ", "\n", "\t"}

IsUpper(c) == \E i \in 1..Len(UpperLetters) : UpperLetters[i] = c
IsLower(c) == \E i \in 1..Len(LowerLetters) : LowerLetters[i] = c
LowerChar(c) ==
    IF IsUpper(c) THEN LowerLetters[CHOOSE i \in 1..Len(UpperLetters) : UpperLetters[i] = c] ELSE c
UpperChar(c) ==
    IF IsLower(c) THEN UpperLetters[CHOOSE i \in 1..Len(LowerLetters) : LowerLetters[i] = c] ELSE c

\* str.lower() and str.upper()
lower(s) == [i \in 1..Len(s) |-> LowerChar(s[i])]
upper(s) == [i \in 1..Len(s) |-> UpperChar(s[i])]

\* `sub in s`
Contains(s, sub) ==
    \E i \in 0..(Len(s) - Len(sub)) : \A j \in 1..Len(sub) : s[i + j] = sub[j]

Rep(c, n) == [i \in 1..n |-> c]

(***************************************************************************)
(* RecursiveCharacterTextSplitter(chunk_size=600, chunk_overlap=120,       *)
(* separators=["\n\n", "\n", ". ", " ", ""]), keep_separator=True and      *)
(* strip_whitespace=True (the library's defaults).  Every string the       *)
(* splitter handles is a slice [lo, hi] of the text it was given: the      *)
(* separators are kept at the start of the split that follows them and     *)
(* splits are joined with the empty string.                                *)
(***************************************************************************)
chunk_size == 600
chunk_overlap == 120
separators == << <<"\n", "\n">>, <<"\n">>, <<".", " ">>, <<" ">>, <<>> >>

Slice(lo, hi) == [lo |-> lo, hi |-> hi]
SliceLen(sl) == sl.hi - sl.lo + 1
SliceText(text, sl) == SubSeq(text, sl.lo, sl.hi)

\* an occurrence of sep at i, inside text[lo..hi]
OccursAt(text, hi, sep, i) ==
    /\ i + Len(sep) - 1 <= hi
    /\ \A j \in 1..Len(sep) : text[i + j - 1] = sep[j]

\* re.split scans left to right and its matches do not overlap: in a run of
\* occurrences of a separator that overlaps itself ("\n\n"), every second one.
IsMatch(text, lo, hi, sep, i) ==
    /\ OccursAt(text, hi, sep, i)
    /\ \/ Len(sep) = 1
       \/ sep[1] # sep[2]
       \/ LET before == {j \in lo..i : \A m \in j..i : OccursAt(text, hi, sep, m)}
              start == CHOOSE j \in before : \A m \in before : j <= m
          IN  (i - start) % 2 = 0

\* re.search(separator, text)
Found(text, sl, sep) == \E i \in sl.lo..sl.hi : OccursAt(text, sl.hi, sep, i)

\* _split_text_with_regex(text, separator, keep_separator=True): the non-empty splits
split_text_with_regex(text, sl, sep) ==
    IF Len(sep) = 0
    THEN [k \in 1..SliceLen(sl) |-> Slice(sl.lo + k - 1, sl.lo + k - 1)]
    ELSE LET positions == [k \in 1..SliceLen(sl) |-> sl.lo + k - 1]
             starts == SelectSeq(positions,
                                 LAMBDA i : i = sl.lo \/ IsMatch(text, sl.lo, sl.hi, sep, i))
         IN  [k \in 1..Len(starts) |->
                 Slice(starts[k], IF k = Len(starts) THEN sl.hi ELSE starts[k + 1] - 1)]

\* str.strip() of a slice; an empty result has hi < lo
Strip(text, sl) ==
    LET inside == {i \in sl.lo..sl.hi : text[i] \notin Whitespace}
    IN  IF inside = {} THEN Slice(sl.lo, sl.lo - 1)
        ELSE Slice(CHOOSE i \in inside : \A j \in inside : i <= j,
                   CHOOSE i \in inside : \A j \in inside : i >= j)

\* _join_docs(current_doc, ""): the strip of splits[first..last] joined, or none
join_docs(text, splits, first, last) ==
    IF first > last THEN <<>>
    ELSE LET joined == Strip(text, Slice(splits[first].lo, splits[last].hi))
         IN  IF SliceLen(joined) = 0 THEN <<>> ELSE <<joined>>

\* the while loop of _merge_splits: the current_doc is splits[first..i-1] of
\* length total; the number of splits popped from its front before d is added
Popped(splits, first, i, total, len) ==
    LET After(p) == total - (splits[first + p].lo - splits[first].lo)
        Goes(p) == \/ After(p) > chunk_overlap
                   \/ (After(p) + len > chunk_size /\ After(p) > 0)
    IN  CHOOSE p \in 0..(i - first) : ~Goes(p) /\ \A q \in 0..(p - 1) : Goes(q)

\* one iteration of the for loop of _merge_splits, on d = splits[i]
MergeStep(text, splits, st, i) ==
    LET len == SliceLen(splits[i])
        over == st.total + len > chunk_size
        p == IF over /\ st.first < i THEN Popped(splits, st.first, i, st.total, len) ELSE 0
        docs == IF over /\ st.first < i
                THEN st.docs \o join_docs(text, splits, st.first, i - 1)
                ELSE st.docs
        total == st.total - (splits[st.first + p].lo - splits[st.first].lo)
    IN  [docs |-> docs, first |-> st.first + p, total |-> total + len]

\* the for loop, taken LoopBlock iterations at a time; the test on st.total
\* (never negative) only makes the evaluation of st strict
LoopBlock == 40

RECURSIVE MergeBlock(_, _, _, _, _)
MergeBlock(text, splits, st, i, stop) ==
    IF i > stop \/ st.total < 0 THEN st
    ELSE MergeBlock(text, splits, MergeStep(text, splits, st, i), i + 1, stop)

RECURSIVE MergeLoop(_, _, _, _, _)
MergeLoop(text, splits, st, i, last) ==
    IF i > last \/ st.total < 0 THEN st
    ELSE LET stop == IF i + LoopBlock - 1 < last THEN i + LoopBlock - 1 ELSE last
         IN  MergeLoop(text, splits, MergeBlock(text, splits, st, i, stop), stop + 1, last)

\* _merge_splits(splits[from..to], ""): the chunks, as stripped slices
merge_splits(text, splits, from, to) ==
    LET st == MergeLoop(text, splits, [docs |-> <<>>, first |-> from, total |-> 0], from, to)
    IN  st.docs \o join_docs(text, splits, st.first, to)

\* the first separator of seps that the text holds (the last one if none does)
PickSeparator(text, sl, seps) ==
    LET hits == {k \in 1..Len(seps) : Len(seps[k]) = 0 \/ Found(text, sl, seps[k])}
    IN  IF hits = {} THEN Len(seps) ELSE CHOOSE k \in hits : \A m \in hits : k <= m

\* _split_text(text, separators): the for loop over the splits gathers the runs
\* of splits shorter than chunk_size and merges each run; a split that is not
\* shorter is split again with the separators that remain
RECURSIVE split_text_rec(_, _, _)
RECURSIVE SplitsFrom(_, _, _, _)
SplitsFrom(text, splits, new_separators, i) ==
    IF i > Len(splits) THEN <<>>
    ELSE LET big == {k \in i..Len(splits) : ~(SliceLen(splits[k]) < chunk_size)}
             nxt == IF big = {} THEN Len(splits) + 1
                    ELSE CHOOSE k \in big : \A m \in big : k <= m
             good == IF nxt > i THEN merge_splits(text, splits, i, nxt - 1) ELSE <<>>
         IN  IF nxt > Len(splits) THEN good
             ELSE good
                  \o (IF Len(new_separators) = 0 THEN <<splits[nxt]>>
                      ELSE split_text_rec(text, splits[nxt], new_separators))
                  \o SplitsFrom(text, splits, new_separators, nxt + 1)

split_text_rec(text, sl, seps) ==
    LET k == PickSeparator(text, sl, seps)
        separator == seps[k]
        new_separators == IF Len(separator) = 0 THEN <<>> ELSE SubSeq(seps, k + 1, Len(seps))
        splits == split_text_with_regex(text, sl, separator)
    IN  SplitsFrom(text, splits, new_separators, 1)

\* text_splitter.split_text(text)
split_text(text) ==
    IF Len(text) = 0 THEN <<>> ELSE split_text_rec(text, Slice(1, Len(text)), separators)

(***************************************************************************)
(* The documents a caller uploads.  Para(c, n, w) is a paragraph of n      *)
(* words of w letters c, separated by single spaces and closed by a full   *)
(* stop: n * (w + 1) characters.                                           *)
(***************************************************************************)
Para(c, n, w) ==
    [i \in 1..(n * (w + 1)) |->
        IF i = n * (w + 1) THEN "." ELSE IF i % (w + 1) = 0 THEN " " ELSE c]

MinDocLen == 500

\* a sentence that holds a year and none of the words of the questions
YearSentence ==
    << "E","m","i","s","s","i","o","n","s"," ","f","e","l","l"," ",
       "s","h","a","r","p","l","y"," ","d","u","r","i","n","g"," ","1","9","9","9"," ",
       "a","c","r","o","s","s"," ","p","l","a","n","t","s","." >>

DocText ==
    [ empty |-> <<>>,
      \* whitespace alone (a scanned page gives no text): no chunk
      blank |-> Rep(" ", MinDocLen),
      short |-> SubSeq(Para("a", 50, 9), 1, MinDocLen - 1),
      one   |-> Para("b", 50, 9),
      two   |-> Para("c", 50, 9) \o <<"\n", "\n">> \o Para("d", 50, 9),
      year  |-> YearSentence \o <<" ">> \o Para("e", 45, 9),
      five  |-> LET p == Para("f", 7, 42)
                    nn == <<"\n", "\n">>
                IN  p \o nn \o p \o nn \o p \o nn \o p \o nn \o p ]

Docs == DOMAIN DocText

\* the chunks of each document, as split_text gives them
DocChunks == [d \in Docs |-> split_text(DocText[d])]

(***************************************************************************)
(* RAGEngine                                                               *)
(***************************************************************************)
\* the ticker strings of the calls: app.py upper-cases what the user types,
\* which may be empty; other callers pass the string as it is
Tickers ==
    { <<"T","S","L","A">>, <<"t","s","l","a">>, <<>> }

Questions ==
    { <<"W","h","a","t"," ","Y","E","A","R"," ","w","a","s"," ","i","t"," ","s","e","t","?">>,
      <<"A","n","y"," ","u","p","d","a","t","e"," ","o","n"," ","g","o","a","l","s","?">>,
      <<"M","a","i","n"," ","c","l","i","m","a","t","e"," ","r","i","s","k","s","?">> }

\* the k a caller asks for: app.py offers 3, 5 and 10, config.TOP_K_RESULTS is 5
MaxK == 3
Ks == {1, MaxK}

\* a persisted collection is not let grow beyond MaxStored documents
MaxStored == 3

\* a page_content is the document it is a slice of and the slice;
\* chunk.strip() of each chunk of each document (line 79)
PageContents ==
    [d \in Docs |->
        [i \in 1..Len(DocChunks[d]) |-> [doc |-> d, at |-> Strip(DocText[d], DocChunks[d][i])]]]

\* the characters of a page_content
ContentText(content) == SliceText(DocText[content.doc], content.at)
ContentLen(content) == SliceLen(content.at)

\* enumerate(chunks): the number that goes with the i-th chunk
enumerate_alt(i) == i
enumerate(i) == i - 1

\* process_document: the chunks of split_text, numbered in order
process_document(doc, metadata) ==
    LET chunks == DocChunks[doc]
    IN  [i \in 1..Len(chunks) |->
            [page_content |-> PageContents[doc][i],
             metadata |-> [ticker |-> metadata.ticker,
                           chunk_id |-> enumerate(i),
                           chunk_length |-> SliceLen(chunks[i])]]]

collection_name(ticker) == <<"c","o","m","p","a","n","y","_">> \o lower(ticker)

\* chromadb accepts a collection name of 3 to 63 characters from [a-zA-Z0-9._-]
\* that starts and ends with a letter or a digit and holds no ".."
NameChar(c) == IsUpper(c) \/ IsLower(c) \/ c \in Digits \/ c \in {"_", "-", "."}
AlphaNum(c) == IsUpper(c) \/ IsLower(c) \/ c \in Digits
ValidCollectionName(name) ==
    /\ Len(name) >= 3 /\ Len(name) <= 63
    /\ \A i \in 1..Len(name) : NameChar(name[i])
    /\ AlphaNum(name[1]) /\ AlphaNum(name[Len(name)])
    /\ ~Contains(name, <<".", ".">>)

\* Chroma(collection_name=...): get_or_create_collection
get_or_create_collection_alt(colls, name) ==
    [n \in DOMAIN colls \cup {name} |-> IF n = name THEN <<>> ELSE colls[n]]
get_or_create_collection(colls, name) ==
    IF name \in DOMAIN colls THEN colls
    ELSE [n \in DOMAIN colls \cup {name} |-> IF n = name THEN <<>> ELSE colls[n]]

\* Chroma.from_documents: get_or_create_collection, then add the documents
\* under fresh ids
from_documents(colls, name, documents) ==
    LET had == get_or_create_collection(colls, name)
    IN  [had EXCEPT ![name] = @ \o documents]

\* Chroma.from_documents when embedding or adding the documents raises: the
\* collection was got or created by then (the constructor runs first) and no
\* document is added to it
from_documents_raises_alt(colls, name, documents) == from_documents(colls, name, documents)
from_documents_raises(colls, name, documents) == get_or_create_collection(colls, name)

\* self.vector_stores[ticker] = ... (lines 98 and 117)
bind_alt(stores, ticker, name) == [t \in {ticker} |-> name]
bind(stores, ticker, name) ==
    [t \in DOMAIN stores \cup {ticker} |-> IF t = ticker THEN name ELSE stores[t]]

\* What the embedding model and the vector store do with a call is an input:
\* Chroma.from_documents stores the documents or raises (line 98), and
\* similarity_search_with_score returns or raises (line 132)
StoreOutcomes == {"stored", "raises"}
SearchOutcomes == {"results", "raises"}
StoreException == "exception raised by the embedding model or the vector store"

\* the distance of a stored document from the question in embedding space: a
\* fixed function of the two texts
Distance(question, document) ==
    (Len(question) * (document.metadata.chunk_id + 2)
        + ContentLen(document.page_content)) % 7

\* similarity_search_with_score(question, k): the k nearest documents of the
\* collection, nearest first, each with its distance
similarity_search_with_score(stored, question, k) ==
    LET n == Len(stored)
        Before(i, j) ==
            \/ Distance(question, stored[i]) < Distance(question, stored[j])
            \/ (Distance(question, stored[i]) = Distance(question, stored[j]) /\ i < j)
        Rank(i) == Cardinality({j \in 1..n : Before(j, i)}) + 1
        found == IF k < n THEN k ELSE n
    IN  [r \in 1..found |->
            LET i == CHOOSE i \in 1..n : Rank(i) = r
            IN  [doc |-> stored[i], score |-> Distance(question, stored[i])]]

\* _is_fact_question(question): a cue is a substring of the question
FactCues ==
    { <<"y","e","a","r">>, <<"w","h","e","n">>, <<"h","o","w"," ","m","a","n","y">>,
      <<"n","u","m","b","e","r">>, <<"d","a","t","e">>,
      <<"i","n","c","o","r","p","o","r","a","t","e","d">>, <<"f","o","u","n","d","e","d">> }
_is_fact_question(question) == \E kw \in FactCues : Contains(question, kw)

\* the k of the search (lines 129-130)
search_k_alt(question, k) == IF _is_fact_question(question) THEN 1 ELSE k
search_k(question, k) == IF _is_fact_question(lower(question)) THEN 1 ELSE k

\* the answers of a result: a fixed message, or text extracted from a chunk
NoIndexedDocument(ticker) == [kind |-> "No indexed document for", ticker |-> ticker]
NoRelevantInformation == [kind |-> "No relevant information found."]
NoDirectAnswer ==
    [kind |-> "The document does not provide a direct answer to this question."]
Extracted(text) == [kind |-> "extracted", text |-> text]

\* re: a letter, and \w
IsLetter(c) == IsUpper(c) \/ IsLower(c)
IsWordChar(c) == IsLetter(c) \/ c \in Digits \/ c = "_"

\* _extract_keywords(question): re.findall(r"\b[a-zA-Z]{3,}\b", question) without
\* the stop words.  A match is a maximal run of at least 3 letters with no
\* word character on either side.
stop_words ==
    { <<"w","h","a","t">>, <<"w","h","e","n">>, <<"w","h","e","r","e">>, <<"w","h","o">>,
      <<"h","o","w">>, <<"i","s">>, <<"a","r","e">>, <<"t","h","e">>, <<"a">>, <<"a","n">>,
      <<"t","h","e","i","r">>, <<"t","h","e","m">> }

_extract_keywords(question) ==
    LET n == Len(question)
        End(i) == CHOOSE j \in i..n :
                      /\ \A m \in i..j : IsLetter(question[m])
                      /\ (j = n \/ ~IsLetter(question[j + 1]))
        IsToken(i) ==
            /\ IsLetter(question[i])
            /\ (i = 1 \/ ~IsWordChar(question[i - 1]))
            /\ End(i) - i + 1 >= 3
            /\ (End(i) = n \/ ~IsWordChar(question[End(i) + 1]))
        starts == SelectSeq([k \in 1..n |-> k], IsToken)
        words == [k \in 1..Len(starts) |-> SubSeq(question, starts[k], End(starts[k]))]
    IN  SelectSeq(words, LAMBDA w : w \notin stop_words)

\* re.split(r'(?<=[.!?])\s+', context): the pieces between the runs of
\* whitespace that follow a '.', '!' or '?'
SentenceEnds == {".", "!", "?"}

sentences_of(context) ==
    LET n == Len(context)
        IsCut(i) == i > 1 /\ context[i] \in Whitespace /\ context[i - 1] \in SentenceEnds
        cuts == SelectSeq([k \in 1..n |-> k], IsCut)
        RunEnd(i) == CHOOSE j \in i..n :
                         /\ \A m \in i..j : context[m] \in Whitespace
                         /\ (j = n \/ context[j + 1] \notin Whitespace)
    IN  [k \in 1..(Len(cuts) + 1) |->
            SubSeq(context,
                   IF k = 1 THEN 1 ELSE RunEnd(cuts[k - 1]) + 1,
                   IF k = Len(cuts) + 1 THEN n ELSE cuts[k] - 1)]

\* re.search(r"\b(18|19|20)\d{2}\b", s)
has_year(s) ==
    \E i \in 1..(Len(s) - 3) :
        /\ <<s[i], s[i + 1]>> \in { <<"1","8">>, <<"1","9">>, <<"2","0">> }
        /\ s[i + 2] \in Digits /\ s[i + 3] \in Digits
        /\ (i = 1 \/ ~IsWordChar(s[i - 1]))
        /\ (i + 3 = Len(s) \/ ~IsWordChar(s[i + 4]))

\* lines 170-174: the score of a sentence
sentence_score_alt(keywords, s) ==
    Cardinality({k \in 1..Len(keywords) : Contains(lower(s), keywords[k])})
sentence_score(keywords, s) ==
    Cardinality({k \in 1..Len(keywords) : Contains(lower(s), keywords[k])})
        + (IF has_year(s) THEN 2 ELSE 0)

\* s.strip()
strip(s) == SliceText(s, Strip(s, Slice(1, Len(s))))

\* scored.sort(reverse=True, key=lambda x: x[0]): list.sort is stable, so the
\* entry at a comes before the entry at b when its score is higher, or equal
\* and a is before b
sorts_before_alt(scored, a, b) ==
    \/ scored[a].score > scored[b].score
    \/ (scored[a].score = scored[b].score /\ a > b)
sorts_before(scored, a, b) ==
    \/ scored[a].score > scored[b].score
    \/ (scored[a].score = scored[b].score /\ a < b)

\* _generate_answer(question, context)
_generate_answer(question, context) ==
    LET question_lower == lower(question)
        keywords == _extract_keywords(question_lower)
        sentences == sentences_of(context)
        \* line 176: the sentences that are scored
        kept == SelectSeq([i \in 1..Len(sentences) |-> i],
                          LAMBDA i : /\ sentence_score(keywords, sentences[i]) > 0
                                     /\ Len(sentences[i]) > 30)
        scored == [a \in 1..Len(kept) |->
                      [score |-> sentence_score(keywords, sentences[kept[a]]),
                       s |-> strip(sentences[kept[a]])]]
        \* line 182: the entry at place r of the sorted list
        At(r) == scored[CHOOSE a \in 1..Len(scored) :
                           Cardinality({b \in 1..Len(scored) :
                                           sorts_before(scored, b, a)}) = r - 1].s
    IN  IF Len(scored) = 0 THEN NoDirectAnswer
        ELSE IF _is_fact_question(question_lower) THEN Extracted(At(1))
        ELSE IF Len(scored) = 1 THEN Extracted(At(1))
        ELSE Extracted(At(1) \o <<" ">> \o At(2))

\* _generate_answer(question, page_content) for each question and each chunk
\* of each document
Answers ==
    [q \in Questions |->
        [d \in Docs |->
            [i \in 1..Len(PageContents[d]) |->
                _generate_answer(q, ContentText(PageContents[d][i]))]]]

\* line 146: the answer extracted from a stored document
answer_of(question, document) ==
    Answers[question][document.page_content.doc][document.metadata.chunk_id + 1]

\* line 144: best_doc, score = results[0]
best_match_alt(results) == results[Len(results)]
best_match(results) == results[1]

\* lines 150-154: the sources of a result
sources_of(results) ==
    << [content |-> results[1].doc.page_content,
        chunk_id |-> results[1].doc.metadata.chunk_id,
        relevance_score |-> results[1].score] >>

\* lines 136-141: what query_document returns when the search found nothing
empty_result_alt(searches, question) ==
    [searches |-> searches,
     extractions |-> << [question |-> question, context |-> <<>>] >>,
     result |-> [answer |-> NoDirectAnswer, sources |-> <<>>, context |-> <<>>]]
empty_result(searches, question) ==
    [searches |-> searches,
     extractions |-> <<>>,
     result |-> [answer |-> NoRelevantInformation, sources |-> <<>>, context |-> <<>>]]

\* lines 129-156: the search of the store bound to the ticker and the result
\* built from it; searches and extractions are the calls made on the way
search_and_answer(stored, question, k) ==
    LET kk == search_k(question, k)
        results == similarity_search_with_score(stored, question, kk)
    IN  IF Len(results) = 0
        THEN empty_result(<< [k |-> kk, results |-> results] >>, question)
        ELSE [searches |-> << [k |-> kk, results |-> results] >>,
              extractions |-> << [question |-> question,
                                  context |-> best_match(results).doc.page_content] >>,
              result |-> [answer |-> answer_of(question, best_match(results).doc),
                          sources |-> sources_of(results),
                          \* page_content[:2000] of a chunk of at most
                          \* chunk_size characters
                          context |-> best_match(results).doc.page_content]]

InitRag ==
    /\ vector_stores = <<>>
    /\ collections = <<>>
    /\ rag_ret = [op |-> "none"]

\* index_document(ticker, text, metadata)
index_guard_alt(text) == Len(text) = 0
index_guard(text) == Len(text) = 0 \/ Len(text) < MinDocLen

IndexDocument(ticker, doc, store) ==
    LET text == DocText[doc]
        documents == process_document(doc, [ticker |-> upper(ticker)])
        name == collection_name(ticker)
        stored == IF name \in DOMAIN collections THEN Len(collections[name]) ELSE 0
        call == [op |-> "index_document", ticker |-> ticker, doc |-> doc]
    IN  /\ UNCHANGED sa_vars
        /\ IF index_guard(text)
           THEN /\ rag_ret' = call @@ [result |-> FALSE, caught |-> "nothing"]
                /\ UNCHANGED <<vector_stores, collections>>
           ELSE IF ~ValidCollectionName(name)
           THEN \* the Chroma constructor raises, line 106 catches
                /\ rag_ret' = call @@ [result |-> FALSE, caught |-> "invalid name"]
                /\ UNCHANGED <<vector_stores, collections>>
           ELSE IF store = "raises"
           THEN \* embedding or adding raises, line 106 catches
                /\ collections' = from_documents_raises(collections, name, documents)
                /\ UNCHANGED vector_stores
                /\ rag_ret' = call @@ [result |-> FALSE, caught |-> StoreException]
           ELSE /\ stored + Len(documents) <= MaxStored
                /\ collections' = from_documents(collections, name, documents)
                /\ vector_stores' = bind(vector_stores, ticker, name)
                /\ rag_ret' = call @@ [result |-> TRUE, caught |-> "nothing"]

\* query_document(ticker, question, k)
QueryDocument(ticker, question, k, search) ==
    LET name == collection_name(ticker)
        \* reattached: lines 116-121 ran
        call == [op |-> "query_document", ticker |-> ticker, question |-> question, k |-> k,
                 reattached |-> ticker \notin DOMAIN vector_stores]
    IN  /\ UNCHANGED sa_vars
        /\ IF ticker \notin DOMAIN vector_stores /\ ~ValidCollectionName(name)
           THEN \* Chroma(...) raises, line 122 catches
                /\ rag_ret' = call @@
                              [searches |-> <<>>,
                               extractions |-> <<>>,
                               result |-> [answer |-> NoIndexedDocument(ticker),
                                           sources |-> <<>>, context |-> <<>>]]
                /\ UNCHANGED <<vector_stores, collections>>
           ELSE LET stores == IF ticker \in DOMAIN vector_stores THEN vector_stores
                              ELSE bind(vector_stores, ticker, name)
                    colls == IF ticker \in DOMAIN vector_stores THEN collections
                             ELSE get_or_create_collection(collections, name)
                IN  /\ vector_stores' = stores
                    /\ collections' = colls
                    /\ IF search = "raises"
                       THEN \* line 132 raises and nothing catches: the call
                            \* has no result
                            rag_ret' = call @@ [raised |-> StoreException]
                       ELSE rag_ret' = call @@ search_and_answer(colls[stores[ticker]],
                                                                question, k)

\* process_document(text, metadata), called with a metadata of an empty ticker
ProcessDocument(doc) ==
    /\ rag_ret' = [op |-> "process_document", doc |-> doc,
                   result |-> process_document(doc, [ticker |-> <<>>])]
    /\ UNCHANGED <<vector_stores, collections, sa_vars>>

\* load_pdf(pdf_path).  What the two extractors do with the file is an input:
\* LlamaParse returns documents or raises (a parse failure, the timeout);
\* pypdf returns the texts of the pages or raises (a file it cannot read).
PrimaryOutcomes ==
    { [kind |-> "documents", texts |-> << <<"a">> >>],
      [kind |-> "documents", texts |-> << <<"a">>, <<"b">> >>],
      [kind |-> "raises", error |-> "parse failure"],
      [kind |-> "raises", error |-> "timeout"] }

FallbackOutcomes ==
    { [kind |-> "pages", texts |-> <<>>],
      [kind |-> "pages", texts |-> << <<"c">>, <<>>, <<"d">> >>],
      [kind |-> "raises", error |-> "PdfReadError"] }

\* "\n".join(texts)
RECURSIVE JoinLines(_, _)
JoinLines(texts, i) ==
    IF i > Len(texts) THEN <<>>
    ELSE IF i = Len(texts) THEN texts[i]
    ELSE texts[i] \o <<"\n">> \o JoinLines(texts, i + 1)

\* ran: the extractors that were run, in order; a call that raises has no result
load_pdf(primary, fallback) ==
    IF primary.kind = "documents"
    THEN [ran |-> <<"LlamaParse">>, returned |-> TRUE,
          result |-> JoinLines(primary.texts, 1)]
    ELSE IF fallback.kind = "pages"
    THEN [ran |-> <<"LlamaParse", "pypdf">>, returned |-> TRUE,
          result |-> JoinLines(fallback.texts, 1)]
    ELSE [ran |-> <<"LlamaParse", "pypdf">>, returned |-> FALSE,
          raised |-> fallback.error]

LoadPdf(primary, fallback) ==
    /\ rag_ret' = [op |-> "load_pdf", primary |-> primary] @@ load_pdf(primary, fallback)
    /\ UNCHANGED <<vector_stores, collections, sa_vars>>

\* get_document_stats(ticker): None is the empty sequence
GetDocumentStats(ticker) ==
    /\ rag_ret' = [op |-> "get_document_stats", ticker |-> ticker,
                   result |-> IF ticker \notin DOMAIN vector_stores THEN <<>>
                              ELSE << [ticker |-> ticker,
                                       chunk_count |->
                                          Len(collections[vector_stores[ticker]])] >>]
    /\ UNCHANGED <<vector_stores, collections, sa_vars>>

\* list_indexed_companies()
ListIndexedCompanies ==
    /\ rag_ret' = [op |-> "list_indexed_companies", result |-> DOMAIN vector_stores]
    /\ UNCHANGED <<vector_stores, collections, sa_vars>>

\* a new RAGEngine over the same persist_directory (app.py:61, line 42)
NewEngine ==
    /\ vector_stores' = <<>>
    /\ rag_ret' = [op |-> "RAGEngine"]
    /\ UNCHANGED <<collections, sa_vars>>

\* the calls on an engine whose embedding model and vector store answer
\* every call
NextRag ==
    \/ \E ticker \in Tickers, doc \in Docs : IndexDocument(ticker, doc, "stored")
    \/ \E ticker \in Tickers, question \in Questions, k \in Ks :
          QueryDocument(ticker, question, k, "results")
    \/ \E doc \in Docs : ProcessDocument(doc)
    \/ \E primary \in PrimaryOutcomes, fallback \in FallbackOutcomes :
          LoadPdf(primary, fallback)
    \/ \E ticker \in Tickers : GetDocumentStats(ticker)
    \/ ListIndexedCompanies
    \/ NewEngine

\* the calls on an engine whose embedding model or vector store may fail a
\* call, for the documents and the questions of FaultDocs and FaultQuestions
FaultDocs == {"blank", "short", "one", "two"}
FaultQuestions ==
    { <<"A","n","y"," ","u","p","d","a","t","e"," ","o","n"," ","g","o","a","l","s","?">> }

NextFaults ==
    \/ \E ticker \in Tickers, doc \in FaultDocs, store \in StoreOutcomes :
          IndexDocument(ticker, doc, store)
    \/ \E ticker \in Tickers, question \in FaultQuestions, k \in Ks,
          search \in SearchOutcomes :
          QueryDocument(ticker, question, k, search)
    \/ \E ticker \in Tickers : GetDocumentStats(ticker)
    \/ ListIndexedCompanies

(***************************************************************************)
(* _generate_answer as a function of its arguments: the questions and the  *)
(* contexts it is applied to.  A context is up to MaxSentences different    *)
(* sentences, each followed by a space but the last.                       *)
(***************************************************************************)
AnswerSentences ==
    {
      << "T","h","e"," ","n","e","t"," ","z","e","r","o"," ","t","a","r",
         "g","e","t"," ","i","s"," ","s","e","t"," ","f","o","r"," ","2",
         "0","3","0","." >>,
      << "O","u","r"," ","n","e","t"," ","z","e","r","o"," ","t","a","r",
         "g","e","t"," ","c","o","v","e","r","s"," ","a","l","l"," ","s",
         "i","t","e","s","." >>,
      YearSentence,
      \* of exactly 30 characters
      << "N","e","t"," ","z","e","r","o"," ","g","o","a","l","s"," ","s","l","i","p"," ","i","n","t","o"," ","2","0","3","1","." >>,
      << "T","a","r","g","e","t"," ","m","e","t"," ","i","n"," ","2","0",
         "3","0","." >>,
      << "W","a","t","e","r"," ","u","s","e"," ","i","s"," ","r","e","v",
         "i","e","w","e","d"," ","b","y"," ","t","h","e"," ","b","o","a",
         "r","d"," ","e","a","c","h"," ","q","u","a","r","t","e","r","." >>,
      << "F","Y","2","0","3","0"," ","b","u","d","g","e","t"," ","k","e",
         "e","p","s"," ","t","h","e"," ","z","e","r","o"," ","w","a","s",
         "t","e"," ","t","a","r","g","e","t"," ","a","l","i","v","e","!" >> }

AnswerQuestions ==
    {
      << "W","h","a","t"," ","i","s"," ","t","h","e"," ","n","e","t","-",
         "z","e","r","o"," ","t","a","r","g","e","t"," ","y","e","a","r",
         "?" >>,
      << "W","h","e","n"," ","w","a","s"," ","t","h","e"," ","w","a","t",
         "e","r"," ","t","a","r","g","e","t"," ","s","e","t","?" >>,
      << "I","s"," ","t","h","e"," ","z","e","r","o"," ","t","a","r","g",
         "e","t"," ","n","e","t"," ","o","f"," ","o","f","f","s","e","t",
         "s","?" >>,
      << "F","o","u","n","d","e","d"," ","o","n"," ","w","h","a","t","?" >> }

MaxSentences == 3

RECURSIVE JoinSentences(_, _)
JoinSentences(ss, i) ==
    IF i > Len(ss) THEN <<>>
    ELSE IF i = Len(ss) THEN ss[i]
    ELSE ss[i] \o <<" ">> \o JoinSentences(ss, i + 1)

AnswerContexts ==
    { JoinSentences(ss, 1) :
        ss \in { t \in SeqsUpTo(AnswerSentences, MaxSentences) :
                    Len(t) >= 1 /\ \A i, j \in 1..Len(t) : i # j => t[i] # t[j] } }

(***************************************************************************)
(* The calls a caller can make on a SentimentAnalyzer                      *)
(***************************************************************************)
\* config.RISK_THRESHOLDS as shipped (0.3, 0.6, 1.0), and as a deployment
\* that edits config.py may tune it
Configurations ==
    { [low |-> Rat(3, 10), medium |-> Rat(6, 10), high |-> Rat(1, 1)],
      [low |-> Rat(1, 5), medium |-> Rat(1, 2), high |-> Rat(1, 1)] }

InitScore ==
    /\ RISK_THRESHOLDS \in Configurations
    /\ classifier_calls = <<>>
    /\ sa_ret = [op |-> "none"]

AnalyzeText(text) ==
    /\ sa_ret' = [op |-> "analyze_text", text |-> text, result |-> analyze_text(text)]
    /\ classifier_calls' = Invocations(text)
    /\ UNCHANGED <<RISK_THRESHOLDS, rag_vars>>

CalculateAggregateSentiment(texts) ==
    /\ sa_ret' = [op |-> "calculate_aggregate_sentiment", texts |-> texts,
                  result |-> calculate_aggregate_sentiment(texts)]
    /\ classifier_calls' = AggregateInvocations(texts)
    /\ UNCHANGED <<RISK_THRESHOLDS, rag_vars>>

CalculateSentimentDelta(sec_text, news_titles) ==
    /\ sa_ret' = [op |-> "calculate_sentiment_delta", sec_text |-> sec_text,
                  news_titles |-> news_titles,
                  result |-> calculate_sentiment_delta(sec_text, news_titles, RISK_THRESHOLDS)]
    /\ classifier_calls' = Invocations(sec_text) \o AggregateInvocations(news_titles)
    /\ UNCHANGED <<RISK_THRESHOLDS, rag_vars>>

NextScore ==
    \/ \E text \in Texts : AnalyzeText(text)
    \/ \E texts \in HeadlineLists : CalculateAggregateSentiment(texts)
    \/ \E sec_text \in Texts, news_titles \in HeadlineLists :
          CalculateSentimentDelta(sec_text, news_titles)

(***************************************************************************)
(* The analysis of one company (app.py, run_company_analysis): the         *)
(* disclosure and the headlines are scored, then the executive summary is  *)
(* generated.  The inputs of a run are the texts, the forward pass of the  *)
(* classifier that raises (0: none does) and what the BART model does with *)
(* the prompt.                                                             *)
(***************************************************************************)
Faults == 0..(MaxHeadlines + 1)

\* what self.model raises when it cannot infer
ModelException == "exception raised by the classifier"

\* calculate_sentiment_delta when a forward pass raises: analyze_text,
\* analyze_batch and calculate_sentiment_delta have no handler
failed_call_alt(partial) == [returned |-> TRUE, result |-> partial]
failed_call(partial) == [returned |-> FALSE, raised |-> ModelException]

\* the forward passes of calculate_sentiment_delta, in order (lines 78 and 82)
DeltaInvocations(sec_text, news_titles) ==
    Invocations(sec_text) \o AggregateInvocations(news_titles)

\* calculate_sentiment_delta with a classifier whose fault-th pass raises
score_with(sec_text, news_titles, thresholds, fault) ==
    LET passes == DeltaInvocations(sec_text, news_titles)
        result == calculate_sentiment_delta(sec_text, news_titles, thresholds)
    IN  IF fault >= 1 /\ fault <= Len(passes)
        THEN [passes |-> SubSeq(passes, 1, fault)] @@ failed_call(result)
        ELSE [passes |-> passes, returned |-> TRUE, result |-> result]

\* what tokenizer, model.generate and decode (lines 46-61) give for the prompt
Generations ==
    { [kind |-> "raises"],
      [kind |-> "summary", text |-> <<"A", "B">>],
      [kind |-> "summary", text |-> <<"A", ".", " ", "B", ".", " ", "C", ".">>] }

\* summary.split('.')
split_dot(text) ==
    LET n == Len(text)
        IsDot(i) == text[i] = "."
        dots == SelectSeq([k \in 1..n |-> k], IsDot)
    IN  [k \in 1..(Len(dots) + 1) |->
            SubSeq(text,
                   IF k = 1 THEN 1 ELSE dots[k - 1] + 1,
                   IF k = Len(dots) + 1 THEN n ELSE dots[k] - 1)]

\* risk_level.lower()
lower_level(risk_level) ==
    CASE risk_level = "High" -> "high"
      [] risk_level = "Medium" -> "medium"
      [] risk_level = "Low" -> "low"

\* _generate_template_summary: the text, as the pieces the f-string joins
_generate_template_summary_alt(risk_level, greenwashing_score, news_sentiment) ==
    << "Risk is ", lower_level(risk_level), " due to ", "a score of ", greenwashing_score, "." >>
_generate_template_summary(risk_level, greenwashing_score, news_sentiment) ==
    LET reason ==
            IF risk_level = "High"
            THEN "significant discrepancy between positive corporate disclosures and negative media coverage"
            ELSE IF risk_level = "Medium"
            THEN "moderate gap between stated ESG goals and public perception"
            ELSE "alignment between corporate disclosures and media sentiment"
        implication ==
            IF risk_level = "High"
            THEN "This suggests potential greenwashing or unrealized commitments"
            ELSE IF risk_level = "Medium"
            THEN "Further investigation into actual performance is recommended"
            ELSE "The company appears to be following through on stated commitments"
    IN  << "Risk is ", lower_level(risk_level), " due to ", reason, ". ", implication, "." >>

\* generate_executive_summary(risk_analysis, sec_text, news_samples)
generate_executive_summary(risk_analysis, generation) ==
    IF generation.kind = "raises"
    THEN _generate_template_summary(risk_analysis.risk_level,
                                    risk_analysis.greenwashing_score,
                                    risk_analysis.news_sentiment)
    ELSE LET sentences == split_dot(generation.text)
         IN  IF Len(sentences) > 2
             THEN sentences[1] \o <<".", " ">> \o sentences[2] \o <<".">>
             ELSE generation.text

\* a run that is about to start
InitAnalysis ==
    /\ RISK_THRESHOLDS \in Configurations
    /\ InitRag
    /\ classifier_calls = <<>>
    /\ sa_ret \in { [op |-> "run_company_analysis", at |-> "start",
                      sec_text |-> t, news_titles |-> h, fault |-> f, generation |-> g] :
                        t \in Texts, h \in HeadlineLists, f \in Faults, g \in Generations }

\* app.py:142: calculate_sentiment_delta; an exception ends the run (line 180)
ScoreStep ==
    /\ sa_ret.at = "start"
    /\ LET run == score_with(sa_ret.sec_text, sa_ret.news_titles, RISK_THRESHOLDS,
                            sa_ret.fault)
       IN  /\ classifier_calls' = run.passes
           /\ sa_ret' = IF run.returned
                        THEN [sa_ret EXCEPT !.at = "scored"] @@ [risk_analysis |-> run.result]
                        ELSE [sa_ret EXCEPT !.at = "failed"] @@ [raised |-> run.raised]
    /\ UNCHANGED <<RISK_THRESHOLDS, rag_vars>>

\* app.py:148-151: generate_executive_summary
SummaryStep ==
    /\ sa_ret.at = "scored"
    /\ sa_ret' = [sa_ret EXCEPT !.at = "done"] @@
                 [executive_summary |->
                     generate_executive_summary(sa_ret.risk_analysis, sa_ret.generation)]
    /\ UNCHANGED <<RISK_THRESHOLDS, classifier_calls, rag_vars>>

NextAnalysis == ScoreStep \/ SummaryStep

(***************************************************************************)
(* Calls of _generate_answer                                               *)
(***************************************************************************)
\* the arguments of a call that is about to be made
InitAnswer ==
    /\ InitScore
    /\ RISK_THRESHOLDS.low = Rat(3, 10)
    /\ vector_stores = <<>>
    /\ collections = <<>>
    /\ rag_ret \in { [op |-> "call", question |-> q, context |-> c] :
                        q \in AnswerQuestions, c \in AnswerContexts }

GenerateAnswer ==
    /\ rag_ret.op = "call"
    /\ rag_ret' = [op |-> "_generate_answer",
                   question |-> rag_ret.question, context |-> rag_ret.context,
                   result |-> _generate_answer(rag_ret.question, rag_ret.context)]
    /\ UNCHANGED <<vector_stores, collections, sa_vars>>

NextAnswer == GenerateAnswer

(***************************************************************************)
(* A query_document call that runs while an index_document call re-indexes  *)
(* the same ticker, on one engine and with no lock (the code has none).     *)
(* The steps of index_document are the call of Chroma.from_documents, which *)
(* adds the chunks to the collection, and the assignment of its result to   *)
(* vector_stores[ticker] (line 98); the query reads the map and searches    *)
(* the collection in one step (lines 115-156).                              *)
(***************************************************************************)
RaceTicker == <<"T","S","L","A">>
RaceDocs == {"one", "two", "year"}

\* the ticker was indexed with the old document; the two calls are about to
\* be made
InitRace ==
    /\ InitScore
    /\ RISK_THRESHOLDS.low = Rat(3, 10)
    /\ \E old \in RaceDocs, new \in RaceDocs, question \in Questions, k \in Ks :
          LET name == collection_name(RaceTicker)
          IN  /\ collections = from_documents(<<>>, name,
                                    process_document(old, [ticker |-> upper(RaceTicker)]))
              /\ vector_stores = bind(<<>>, RaceTicker, name)
              /\ rag_ret = [op |-> "concurrent calls", old |-> old,
                            index |-> [at |-> "start", ticker |-> RaceTicker, doc |-> new],
                            query |-> [at |-> "start", ticker |-> RaceTicker,
                                       question |-> question, k |-> k]]

\* lines 94-103: Chroma.from_documents has returned
IndexAdd ==
    /\ rag_ret.op = "concurrent calls" /\ rag_ret.index.at = "start"
    /\ collections' = from_documents(collections, collection_name(rag_ret.index.ticker),
                          process_document(rag_ret.index.doc,
                                           [ticker |-> upper(rag_ret.index.ticker)]))
    /\ rag_ret' = [rag_ret EXCEPT !.index.at = "added"]
    /\ UNCHANGED <<vector_stores, sa_vars>>

\* lines 98 and 104-105: the store is bound to the ticker and True returned
IndexBind ==
    /\ rag_ret.op = "concurrent calls" /\ rag_ret.index.at = "added"
    /\ vector_stores' = bind(vector_stores, rag_ret.index.ticker,
                             collection_name(rag_ret.index.ticker))
    /\ rag_ret' = [rag_ret EXCEPT !.index = @ @@ [result |-> TRUE],
                                  !.index.at = "returned"]
    /\ UNCHANGED <<collections, sa_vars>>

\* lines 115-156 for a ticker that is in the map
QuerySearch ==
    /\ rag_ret.op = "concurrent calls" /\ rag_ret.query.at = "start"
    /\ rag_ret.query.ticker \in DOMAIN vector_stores
    /\ rag_ret' = [rag_ret EXCEPT
                      !.query = [@ EXCEPT !.at = "returned"] @@
                                search_and_answer(
                                    collections[vector_stores[rag_ret.query.ticker]],
                                    rag_ret.query.question, rag_ret.query.k)]
    /\ UNCHANGED <<vector_stores, collections, sa_vars>>

NextRace == IndexAdd \/ IndexBind \/ QuerySearch

Init == InitScore /\ InitRag

\* the calls on the SentimentAnalyzer
SpecScore == Init /\ [][NextScore]_vars

\* the calls on the RAGEngine, which does not read the thresholds: they are
\* the shipped ones
InitEngine == Init /\ RISK_THRESHOLDS.low = Rat(3, 10)

Spec == InitEngine /\ [][NextRag]_vars

\* the calls on the RAGEngine when the model or the store may fail
SpecFaults == InitEngine /\ [][NextFaults]_vars

\* a query that runs while its ticker is re-indexed
SpecRace == InitRace /\ [][NextRace]_vars

\* the analysis of a company
SpecAnalysis == InitAnalysis /\ [][NextAnalysis]_vars

\* answer extraction, applied to questions and contexts
SpecAnswer == InitAnswer /\ [][NextAnswer]_vars

(***************************************************************************)
(* Claims about the retrieval engine (specification Spec)                  *)
(***************************************************************************)
IsIndex(r) == r.op = "index_document"
\* a query_document call that returned (one that raised has no result)
Returned(r) == "result" \in DOMAIN r
IsQuery(r) == r.op = "query_document" /\ Returned(r)
CollectionOf(stores, colls, ticker) == colls[stores[ticker]]

\* C1: re-indexing replaces.  When index(t, text1) has succeeded and
\* index(t, text2) with another text then succeeds, the index of t holds
\* exactly the chunks of text2: its chunk count is that of text2 and no chunk
\* of text1 is left in it for a query to return.
C1_ReindexReplaces ==
    [][ ( /\ IsIndex(rag_ret) /\ rag_ret.result
          /\ IsIndex(rag_ret') /\ rag_ret'.result
          /\ rag_ret'.ticker = rag_ret.ticker
          /\ rag_ret'.doc # rag_ret.doc )
        => LET held == CollectionOf(vector_stores', collections', rag_ret'.ticker)
           IN  /\ Len(held) = Len(DocChunks[rag_ret'.doc])
               /\ \A i \in 1..Len(held) : held[i].page_content.doc # rag_ret.doc ]_vars

\* C2: a query for a ticker that has no in-memory index and no persisted
\* collection returns the answer that no document is indexed for the ticker,
\* with no sources.
C2_NeverIndexedAnswer ==
    [][ ( /\ IsQuery(rag_ret')
          /\ rag_ret'.ticker \notin DOMAIN vector_stores
          /\ collection_name(rag_ret'.ticker) \notin DOMAIN collections )
        => /\ rag_ret'.result.answer = NoIndexedDocument(rag_ret'.ticker)
           /\ rag_ret'.result.sources = <<>> ]_vars

\* C3: index with a text of fewer than 500 characters (the empty text
\* included) returns false and creates no index entry: the index map and the
\* persisted collections are as before, so a ticker that had no entry has none.
C3_ShortTextRejected ==
    [][ (IsIndex(rag_ret') /\ Len(DocText[rag_ret'.doc]) < 500)
        => /\ rag_ret'.result = FALSE
           /\ vector_stores' = vector_stores
           /\ collections' = collections ]_vars

C3_Witness ==
    /\ IsIndex(rag_ret)
    /\ Len(DocText[rag_ret.doc]) = 499
    /\ rag_ret.result = FALSE
    /\ rag_ret.ticker \notin DOMAIN vector_stores
    /\ collection_name(rag_ret.ticker) \notin DOMAIN collections

\* the cues of a fact-style question, as the specification lists them
ClaimedCues ==
    { <<"y","e","a","r">>, <<"w","h","e","n">>, <<"h","o","w"," ","m","a","n","y">>,
      <<"n","u","m","b","e","r">>, <<"d","a","t","e">>,
      <<"i","n","c","o","r","p","o","r","a","t","e","d">>, <<"f","o","u","n","d","e","d">> }
FactStyle(question) == \E cue \in ClaimedCues : Contains(lower(question), cue)

\* C9: the similarity search of a fact-style question (its lower-cased text
\* holds a cue) is issued with k = 1 whatever k the caller asked for; the
\* search of any other question is issued with the caller's k.
C9_FactQuestionForcesK1 ==
    IsQuery(rag_ret) =>
        \A i \in 1..Len(rag_ret.searches) :
            rag_ret.searches[i].k = IF FactStyle(rag_ret.question) THEN 1 ELSE rag_ret.k

C9_Witness ==
    /\ IsQuery(rag_ret)
    /\ Contains(rag_ret.question, <<"Y","E","A","R">>)
    /\ rag_ret.k = MaxK
    /\ Len(rag_ret.searches) = 1
    /\ rag_ret.searches[1].k = 1
    /\ Len(rag_ret.searches[1].results) = 1
    /\ Len(CollectionOf(vector_stores, collections, rag_ret.ticker)) > 1

\* C10: for a question that is not fact-style, when the search returns
\* n >= 1 chunks the sources of the result are all n of them, in the order of
\* the search, each with its content, chunk_id and relevance_score.
C10_SourcesAreAllRetrieved ==
    ( /\ IsQuery(rag_ret)
      /\ ~FactStyle(rag_ret.question)
      /\ Len(rag_ret.searches) = 1
      /\ Len(rag_ret.searches[1].results) >= 1 )
    => LET results == rag_ret.searches[1].results
       IN  rag_ret.result.sources =
               [i \in 1..Len(results) |->
                   [content |-> results[i].doc.page_content,
                    chunk_id |-> results[i].doc.metadata.chunk_id,
                    relevance_score |-> results[i].score]]

\* a sentence of the text holds a keyword of the question
HoldsKeyword(question, text) ==
    LET keywords == _extract_keywords(lower(question))
        sentences == sentences_of(text)
    IN  \E i \in 1..Len(sentences), k \in 1..Len(keywords) :
            Contains(lower(sentences[i]), keywords[k])

\* for each question and each chunk of each document
ChunkHoldsKeyword ==
    [q \in Questions |->
        [d \in Docs |->
            [i \in 1..Len(PageContents[d]) |->
                HoldsKeyword(q, ContentText(PageContents[d][i]))]]]

\* C11: when no sentence of the best chunk holds a keyword of the question,
\* the answer of the query is the fixed "no direct answer" message and no
\* sentence of the chunk; sentences that hold a year but no keyword included.
C11_NoKeywordNoAnswer ==
    ( /\ IsQuery(rag_ret)
      /\ Len(rag_ret.result.sources) >= 1
      /\ LET best == rag_ret.searches[1].results[1].doc
         IN  ~ChunkHoldsKeyword[rag_ret.question][best.page_content.doc]
                               [best.metadata.chunk_id + 1] )
    => rag_ret.result.answer = NoDirectAnswer

\* the score of a sentence for a question, as claimed: the number of keywords
\* of the question it matches, plus 2 if it holds a year token
QuestionKeywords == [q \in AnswerQuestions |-> _extract_keywords(lower(q))]
ClaimedMatches(question, sentence) ==
    LET keywords == QuestionKeywords[question]
        lowered == lower(sentence)
    IN  Cardinality({k \in 1..Len(keywords) : Contains(lowered, keywords[k])})
ClaimedScore(question, sentence) ==
    ClaimedMatches(question, sentence) + (IF has_year(sentence) THEN 2 ELSE 0)
\* eligible: a positive score and more than 30 characters, as the extraction
\* takes it
ClaimedEligible(question, sentence) ==
    ClaimedScore(question, sentence) > 0 /\ Len(sentence) > 30

IsExtraction(r) == r.op = "_generate_answer"

Produced(before, after, r) ==
    IF r.op = "process_document" THEN r.result
    ELSE IF IsIndex(r) /\ r.result
    THEN LET name == collection_name(r.ticker)
             had == IF name \in DOMAIN before THEN Len(before[name]) ELSE 0
         IN  SubSeq(after[name], had + 1, Len(after[name]))
    ELSE <<>>

\* C13: the chunks produced for one document carry the chunk_id values
\* 0, 1, ..., n-1 in the order in which the chunks occur in the text.
C13_ChunkIdsSequential ==
    [][ (rag_ret'.op = "process_document" \/ (IsIndex(rag_ret') /\ rag_ret'.result))
        => LET produced == Produced(collections, collections', rag_ret')
           IN  /\ Len(produced) = Len(DocChunks[rag_ret'.doc])
               /\ \A i \in 1..Len(produced) :
                     /\ produced[i].metadata.chunk_id = i - 1
                     /\ produced[i].page_content.doc = rag_ret'.doc
                     /\ i > 1 => produced[i - 1].page_content.at.lo
                                    < produced[i].page_content.at.lo ]_vars

C13_Witness ==
    /\ IsIndex(rag_ret) /\ rag_ret.result
    /\ LET held == CollectionOf(vector_stores, collections, rag_ret.ticker)
       IN  /\ Len(held) = 2
           /\ held[1].metadata.chunk_id = 0 /\ held[2].metadata.chunk_id = 1
           /\ held[1].page_content.at.hi < held[2].page_content.at.lo

\* the chunk count the specification expects for a text of L characters
ClaimedChunkCount(L) ==
    (L - chunk_overlap + (chunk_size - chunk_overlap) - 1) \div (chunk_size - chunk_overlap)

\* C14: the number of chunks of a text of L >= 500 characters is within 1 of
\* ceil((L - 120) / (600 - 120)), whatever the structure of the text.
C14_ChunkCountFormula ==
    (rag_ret.op = "process_document" /\ Len(DocText[rag_ret.doc]) >= 500)
    => Abs(Len(rag_ret.result) - ClaimedChunkCount(Len(DocText[rag_ret.doc]))) <= 1

\* C15: when the similarity search of a query returns no chunk, the result
\* is the fixed "no relevant information found" message with no sources, and
\* answer extraction is not run.
C15_EmptySearch ==
    ( /\ IsQuery(rag_ret)
      /\ Len(rag_ret.searches) = 1
      /\ Len(rag_ret.searches[1].results) = 0 )
    => /\ rag_ret.result.answer = NoRelevantInformation
       /\ rag_ret.result.sources = <<>>
       /\ rag_ret.extractions = <<>>

C15_Witness ==
    /\ IsQuery(rag_ret)
    /\ rag_ret.ticker \in DOMAIN vector_stores
    /\ Len(rag_ret.searches) = 1
    /\ rag_ret.searches[1].results = <<>>
    /\ rag_ret.result.answer = NoRelevantInformation
    /\ rag_ret.extractions = <<>>

\* C16: a query for a ticker that has no in-memory index, while the
\* collection of the ticker holds the chunks an earlier index call persisted,
\* binds the ticker to that collection as it is and returns the result that
\* the search and the extraction give on its chunks, the one a store bound to
\* the collection by index_document gives.
C16_ReattachAnswers ==
    [][ ( /\ IsQuery(rag_ret')
          /\ rag_ret'.ticker \notin DOMAIN vector_stores
          /\ collection_name(rag_ret'.ticker) \in DOMAIN collections
          /\ Len(collections[collection_name(rag_ret'.ticker)]) > 0 )
        => LET name == collection_name(rag_ret'.ticker)
               expected == search_and_answer(collections[name],
                                             rag_ret'.question, rag_ret'.k)
           IN  /\ rag_ret'.ticker \in DOMAIN vector_stores'
               /\ vector_stores'[rag_ret'.ticker] = name
               /\ collections' = collections
               /\ rag_ret'.result = expected.result
               /\ Len(rag_ret'.result.sources) >= 1
               /\ \E i \in 1..Len(collections[name]) :
                     rag_ret'.result.sources[1].content = collections[name][i].page_content
         ]_vars

C16_Witness ==
    /\ IsQuery(rag_ret)
    /\ rag_ret.reattached
    /\ rag_ret.result.answer.kind = "extracted"
    /\ Len(rag_ret.result.sources) = 1
    \* the engine that indexed the document is gone
    /\ DOMAIN vector_stores = {rag_ret.ticker}
    /\ \A i \in 1..Len(collections[collection_name(rag_ret.ticker)]) :
          collections[collection_name(rag_ret.ticker)][i].page_content.doc = "year"

\* C17: indexing ticker A leaves the index of every other ticker B as it
\* was, tickers that differ from A only in letter case included: the chunks
\* the store of B holds (so stats(B) and the results of query(B, ...)) are
\* unchanged, and they are chunks of documents indexed under B.
C17_TickersDoNotInterfere ==
    [][ IsIndex(rag_ret')
        => \A B \in DOMAIN vector_stores :
              B # rag_ret'.ticker
              => /\ B \in DOMAIN vector_stores'
                 /\ CollectionOf(vector_stores', collections', B)
                       = CollectionOf(vector_stores, collections, B) ]_vars

\* C19: load_pdf runs the fallback extractor exactly when the primary one
\* fails or times out: when the primary succeeds its text is returned and the
\* fallback is not run; when it fails the fallback is run, the text of the
\* fallback is returned and the caller sees no failure.
C19_FallbackExactlyOnFailure ==
    rag_ret.op = "load_pdf" =>
        IF rag_ret.primary.kind = "documents"
        THEN /\ rag_ret.ran = <<"LlamaParse">>
             /\ rag_ret.returned
             /\ rag_ret.result = JoinLines(rag_ret.primary.texts, 1)
        ELSE /\ rag_ret.ran = <<"LlamaParse", "pypdf">>
             /\ rag_ret.returned

(***************************************************************************)
(* Claims about the sentiment delta engine (specification SpecScore)       *)
(***************************************************************************)
IsDelta(r) == r.op = "calculate_sentiment_delta"

\* C4: for every disclosure text and every headline sequence, the empty ones
\* included, the risk score of the assessment lies in [0, 1].
C4_RiskScoreInUnitInterval ==
    IsDelta(sa_ret) =>
        /\ RatLe(RatZero, sa_ret.result.greenwashing_score)
        /\ RatLe(sa_ret.result.greenwashing_score, RatOne)

C4_Witness ==
    /\ IsDelta(sa_ret)
    /\ sa_ret.result.greenwashing_score = RatOne
    /\ Len(sa_ret.news_titles) = MaxHeadlines

TierRank(tier) == CASE tier = "Low" -> 0 [] tier = "Medium" -> 1 [] tier = "High" -> 2

\* the tier of a score against the configured thresholds, as claimed
ClaimedTier(score, thresholds, tier) ==
    /\ tier = "Low" <=> RatLt(score, thresholds.low)
    /\ tier = "Medium" <=> (RatLe(thresholds.low, score) /\ RatLt(score, thresholds.medium))
    /\ tier = "High" <=> ~RatLt(score, thresholds.medium)

\* C5: the risk tier is a function of the risk score and the two thresholds
\* of the configuration alone: Low exactly below the low threshold, Medium
\* exactly from the low threshold up to below the medium one, High otherwise;
\* and of two assessments, the one with the larger score never has the lower
\* tier.
C5_TierIsStepFunction ==
    [][ IsDelta(sa_ret')
        => /\ ClaimedTier(sa_ret'.result.greenwashing_score, RISK_THRESHOLDS',
                          sa_ret'.result.risk_level)
           /\ ( ( /\ IsDelta(sa_ret)
                  /\ RatLe(sa_ret.result.greenwashing_score,
                           sa_ret'.result.greenwashing_score) )
                => TierRank(sa_ret.result.risk_level)
                     <= TierRank(sa_ret'.result.risk_level) ) ]_vars

C5_Witness ==
    /\ IsDelta(sa_ret)
    /\ RISK_THRESHOLDS.low = Rat(3, 10)
    /\ sa_ret.result.greenwashing_score = RISK_THRESHOLDS.low
    /\ sa_ret.result.risk_level = "Medium"

\* C6: in every assessment delta is the reported disclosure sentiment minus
\* the reported news sentiment, the risk score is max(0, delta) / 2, and a
\* negative delta gives risk score 0 and tier Low.
C6_DeltaAndScore ==
    IsDelta(sa_ret) =>
        LET r == sa_ret.result
        IN  /\ r.sentiment_delta = RatSub(r.sec_sentiment, r.news_sentiment)
            /\ r.greenwashing_score =
                  IF RatLt(r.sentiment_delta, RatZero) THEN RatZero
                  ELSE RatMul(r.sentiment_delta, Rat(1, 2))
            /\ RatLt(r.sentiment_delta, RatZero)
                  => (r.greenwashing_score = RatZero /\ r.risk_level = "Low")

C6_Witness ==
    /\ IsDelta(sa_ret)
    /\ RatLt(sa_ret.result.sentiment_delta, RatZero)
    /\ sa_ret.result.greenwashing_score = RatZero
    /\ RatLt(RatZero, sa_ret.result.news_sentiment)

Neutral == [score |-> RatZero, label |-> "neutral", confidence |-> RatZero]

\* C7: classifying a text of fewer than 10 characters, the empty text
\* included, gives score 0, confidence 0 and label neutral, and the classifier
\* is not invoked for it.
C7_ShortTextIsNeutral ==
    /\ (sa_ret.op = "analyze_text" /\ TextLen(sa_ret.text) < 10)
          => (sa_ret.result = Neutral /\ classifier_calls = <<>>)
    /\ (IsDelta(sa_ret) /\ TextLen(sa_ret.sec_text) < 10)
          => /\ sa_ret.result.sec_details = Neutral
             /\ \A i \in 1..Len(classifier_calls) : classifier_calls[i] # sa_ret.sec_text

C7_Witness ==
    /\ sa_ret.op = "analyze_text"
    /\ TextLen(sa_ret.text) = 9
    /\ sa_ret.result = Neutral
    /\ classifier_calls = <<>>

\* C8: with an empty headline list the news sentiment is 0, the classifier is
\* invoked for no headline (at most for the disclosure), and delta is the
\* disclosure sentiment.
C8_EmptyHeadlines ==
    (IsDelta(sa_ret) /\ sa_ret.news_titles = <<>>) =>
        /\ sa_ret.result.news_sentiment = RatZero
        /\ sa_ret.result.sentiment_delta = sa_ret.result.sec_sentiment
        /\ \A i \in 1..Len(classifier_calls) : classifier_calls[i] = sa_ret.sec_text
        /\ Len(classifier_calls) <= 1

C8_Witness ==
    /\ IsDelta(sa_ret)
    /\ sa_ret.news_titles = <<>>
    /\ sa_ret.result.sentiment_delta = RatNeg(RatOne)
    /\ classifier_calls = <<sa_ret.sec_text>>

(***************************************************************************)
(* Claims about the analysis of a company (specification SpecAnalysis)     *)
(***************************************************************************)
IsAnalysis(r) == r.op = "run_company_analysis"

\* C18: when the generative step raises, generate_executive_summary returns
\* the template rationale: it states the tier, a driving factor and an
\* implication, it is the same for every score and news sentiment of a tier,
\* and the assessment computed before is as it was computed.
C18_TemplateOnFailure ==
    (IsAnalysis(sa_ret) /\ sa_ret.at = "done" /\ sa_ret.generation.kind = "raises") =>
        LET summary == sa_ret.executive_summary
            tier == sa_ret.risk_analysis.risk_level
        IN  /\ Len(summary) = 7
            /\ summary[1] = "Risk is " /\ summary[2] = lower_level(tier)
            /\ summary[3] = " due to " /\ summary[4] # ""
            /\ summary[5] = ". " /\ summary[6] # "" /\ summary[7] = "."
            /\ \A score \in {RatZero, Rat(1, 2), RatOne}, news \in {RatNeg(RatOne), RatOne} :
                  summary = _generate_template_summary(tier, score, news)
            /\ \A other \in {"Low", "Medium", "High"} \ {tier} :
                  /\ _generate_template_summary(other, RatZero, RatZero)[4] # summary[4]
                  /\ _generate_template_summary(other, RatZero, RatZero)[6] # summary[6]
            /\ sa_ret.risk_analysis =
                  calculate_sentiment_delta(sa_ret.sec_text, sa_ret.news_titles,
                                            RISK_THRESHOLDS)

C18_Witness ==
    /\ IsAnalysis(sa_ret) /\ sa_ret.at = "done"
    /\ sa_ret.generation.kind = "raises"
    /\ sa_ret.risk_analysis.risk_level = "High"
    /\ sa_ret.executive_summary[2] = "high"
    /\ sa_ret.executive_summary[6]
          = "This suggests potential greenwashing or unrealized commitments"

\* the forward passes a run makes when none raises
ClaimedPasses(r) ==
    (IF TextLen(r.sec_text) >= 10 /\ StripLen(r.sec_text) >= 10 THEN <<r.sec_text>> ELSE <<>>)
        \o SelectSeq(r.news_titles, LAMBDA h : TextLen(h) >= 10 /\ StripLen(h) >= 10)

\* C20: when the classifier fails on a disclosure or a headline of at least
\* 10 characters, scoring fails with the exception of the classifier (the
\* ModelUnavailable error): there is no assessment, complete or partial, and
\* the failed forward pass is the last one made, so nothing is retried.
C20_ClassifierFailureIsFatal ==
    ( /\ IsAnalysis(sa_ret) /\ sa_ret.at # "start"
      /\ sa_ret.fault >= 1 /\ sa_ret.fault <= Len(ClaimedPasses(sa_ret)) )
    => /\ sa_ret.at = "failed"
       /\ sa_ret.raised = ModelException
       /\ "risk_analysis" \notin DOMAIN sa_ret
       /\ "executive_summary" \notin DOMAIN sa_ret
       /\ classifier_calls = SubSeq(ClaimedPasses(sa_ret), 1, sa_ret.fault)

\* the disclosure is scored, then the second headline fails
C20_Witness ==
    /\ IsAnalysis(sa_ret) /\ sa_ret.at = "failed"
    /\ sa_ret.fault = 3
    /\ Len(classifier_calls) = 3
    /\ classifier_calls[1] = sa_ret.sec_text
    /\ sa_ret.raised = ModelException

(***************************************************************************)
(* Claims about failures and the index map (specification Spec)            *)
(***************************************************************************)
\* C21: a query never propagates a raw exception.  Whatever fails inside
\* query_document (reattaching to the collection, the embedding call, the
\* similarity search), the call returns a result, and the answer of a query
\* whose reattaching failed is the message that no document is indexed.
C21_QueryNeverRaises ==
    rag_ret.op = "query_document" =>
        /\ Returned(rag_ret)
        /\ ( (rag_ret.reattached /\ ~ValidCollectionName(collection_name(rag_ret.ticker)))
                => /\ rag_ret.result.answer = NoIndexedDocument(rag_ret.ticker)
                   /\ rag_ret.result.sources = <<>> )

C23_NoEmptyIndex ==
    /\ ( (IsIndex(rag_ret) /\ rag_ret.result)
           => /\ Len(DocChunks[rag_ret.doc]) >= 1
              /\ Len(CollectionOf(vector_stores, collections, rag_ret.ticker)) >= 1 )
    /\ \A t \in DOMAIN vector_stores :
          Len(CollectionOf(vector_stores, collections, t)) >= 1

\* C24: only a successful index_document creates an index entry.  A
\* query_document or a get_document_stats call leaves the set that
\* list_indexed_companies returns as it was; a query on a ticker that was
\* never indexed does not make it listed.
C24_QueryAndStatsLeaveTheMap ==
    [][ (rag_ret'.op \in {"query_document", "get_document_stats"})
            => DOMAIN vector_stores' = DOMAIN vector_stores ]_vars

(***************************************************************************)
(* Claims about concurrent calls (specification SpecRace)                  *)
(***************************************************************************)
\* the documents the retrieved chunks of a search come from
SourcesOf(results) == { results[i].doc.page_content.doc : i \in 1..Len(results) }

\* C25: a query that runs while its ticker is re-indexed never observes a
\* half-replaced index.  The chunks it retrieves all belong to the index of
\* the old document or all to the index of the new document, never to a
\* mixture of the two.
C25_NoHalfReplacedIndex ==
    (rag_ret.op = "concurrent calls" /\ rag_ret.query.at = "returned")
        => \/ SourcesOf(rag_ret.query.searches[1].results) \subseteq {rag_ret.old}
           \/ SourcesOf(rag_ret.query.searches[1].results) \subseteq {rag_ret.index.doc}

(***************************************************************************)
(* Claims about answer extraction (specification SpecAnswer)               *)
(***************************************************************************)
\* the claimed score of each sentence for each question
ClaimedScores ==
    [q \in AnswerQuestions |-> [s \in AnswerSentences |-> ClaimedScore(q, s)]]

\* a sentence of the context is part of the answer
Appears(sentence, answer) == answer.kind = "extracted" /\ Contains(answer.text, sentence)

\* C26: a sentence is eligible exactly when its score is greater than 0 and
\* it is at least 30 characters long.  A sentence that scores 0 or is shorter
\* than 30 characters is never part of an answer, and a positively scoring
\* sentence of exactly 30 characters is not discarded: when no more sentences
\* are eligible than the answer takes (1 for a fact-style question, 2
\* otherwise), every eligible sentence is part of the answer.
C26_EligibleFrom30 ==
    IsExtraction(rag_ret) =>
        LET q == rag_ret.question
            sentences == sentences_of(rag_ret.context)
            eligible == {i \in 1..Len(sentences) :
                            ClaimedScores[q][sentences[i]] > 0 /\ Len(sentences[i]) >= 30}
            taken == IF FactStyle(q) THEN 1 ELSE 2
        IN  /\ \A i \in 1..Len(sentences) :
                  Appears(sentences[i], rag_ret.result) => i \in eligible
            /\ Cardinality(eligible) <= taken
                  => \A i \in eligible : Appears(sentences[i], rag_ret.result)

ChunkSentences ==
    [d \in Docs |->
        [i \in 1..Len(PageContents[d]) |->
            LET sentences == sentences_of(ContentText(PageContents[d][i]))
            IN  { strip(sentences[j]) : j \in 1..Len(sentences) }]]

\* the place of a page_content among the chunks of its document
ChunkAt(content) ==
    CHOOSE i \in 1..Len(PageContents[content.doc]) : PageContents[content.doc][i] = content

\* the text is one sentence of the set, or two joined by a space
Verbatim(text, sentences) ==
    \/ text \in sentences
    \/ \E a \in sentences, b \in sentences : text = a \o <<" ">> \o b

\* C28: the answer of a query is derived from the first-returned chunk alone.
\* It is a fixed message or consists of verbatim sentences of that chunk, and
\* it is a function of the question and that chunk: whatever k was asked for
\* and whatever else was retrieved, the same question and the same first
\* chunk give the same answer.
C28_AnswerFromBestChunk ==
    (IsQuery(rag_ret) /\ Len(rag_ret.searches) = 1) =>
        LET results == rag_ret.searches[1].results
            answer == rag_ret.result.answer
        IN  IF Len(results) = 0 THEN answer = NoRelevantInformation
            ELSE LET first == results[1].doc.page_content
                 IN  /\ \/ answer = NoDirectAnswer
                        \/ /\ answer.kind = "extracted"
                           /\ Verbatim(answer.text, ChunkSentences[first.doc][ChunkAt(first)])
                     /\ answer = Answers[rag_ret.question][first.doc][ChunkAt(first)]

\* three chunks were retrieved, the first of them from another document than
\* the last, and the answer is a sentence of the first
C28_Witness ==
    /\ IsQuery(rag_ret) /\ Len(rag_ret.searches) = 1
    /\ LET results == rag_ret.searches[1].results
       IN  /\ Len(results) = MaxK
           /\ results[1].doc.page_content.doc # results[MaxK].doc.page_content.doc
           /\ rag_ret.result.answer.kind = "extracted"
           /\ rag_ret.result.answer.text
                  \in ChunkSentences[results[1].doc.page_content.doc][1]
           /\ Answers[rag_ret.question][results[MaxK].doc.page_content.doc]
                     [ChunkAt(results[MaxK].doc.page_content)] = NoDirectAnswer

(***************************************************************************)
(* Claims about a failed indexing (specification SpecFaults)               *)
(***************************************************************************)
\* the chunks a query on the ticker searches: those of the store the ticker
\* is bound to, or of the collection it would reattach to
Searched(stores, colls, ticker) ==
    IF ticker \in DOMAIN stores THEN colls[stores[ticker]]
    ELSE IF collection_name(ticker) \in DOMAIN colls THEN colls[collection_name(ticker)]
    ELSE <<>>

ClaimedSign(label) ==
    CASE label = "positive" -> 1
      [] label = "neutral"  -> 0
      [] label = "negative" -> -1

\* a result as claimed: score = sign(label) * confidence, within the ranges
WellFormedResult(r) ==
    /\ r.label \in {"positive", "negative", "neutral"}
    /\ RatLe(RatZero, r.confidence) /\ RatLe(r.confidence, RatOne)
    /\ r.score = Rat(ClaimedSign(r.label) * r.confidence.n, r.confidence.d)
    /\ RatLe(RatNeg(RatOne), r.score) /\ RatLe(r.score, RatOne)
    /\ (r.label = "neutral" => r.score = RatZero)

\* the sum of the claimed scores of the headlines from the i-th on: a headline
\* of fewer than 10 characters counts 0, any other the signed confidence the
\* classifier gives it
RECURSIVE ClaimedSum(_, _)
ClaimedSum(texts, i) ==
    IF i > Len(texts) THEN RatZero
    ELSE RatAdd(IF TextLen(texts[i]) < 10 THEN RatZero
                ELSE Rat(ClaimedSign(texts[i].label) * texts[i].conf.n, texts[i].conf.d),
                ClaimedSum(texts, i + 1))

ClaimedMean(texts) == RatDivInt(ClaimedSum(texts, 1), Len(texts))

\* C30: every sentiment result has score = sign(label) * confidence with the
\* signs +1, 0 and -1 for positive, neutral and negative, so the score is in
\* [-1, 1], the confidence in [0, 1] and a neutral result has score 0; the
\* news aggregate is the arithmetic mean over all headlines, a headline of
\* fewer than 10 characters counting in the denominator with score 0.
C30_SignedScoreAndMean ==
    /\ sa_ret.op = "analyze_text" => WellFormedResult(sa_ret.result)
    /\ IsDelta(sa_ret) =>
          /\ WellFormedResult(sa_ret.result.sec_details)
          /\ sa_ret.news_titles # <<>>
                => sa_ret.result.news_sentiment = ClaimedMean(sa_ret.news_titles)
    /\ (sa_ret.op = "calculate_aggregate_sentiment" /\ sa_ret.texts # <<>>)
          => /\ sa_ret.result = ClaimedMean(sa_ret.texts)
             /\ RatLe(RatNeg(RatOne), sa_ret.result) /\ RatLe(sa_ret.result, RatOne)

\* two headlines, one of 9 characters and one the classifier calls negative
\* with confidence 1: the aggregate is -1/2
C30_Witness ==
    /\ sa_ret.op = "calculate_aggregate_sentiment"
    /\ Len(sa_ret.texts) = 2
    /\ TextLen(sa_ret.texts[1]) = 9
    /\ sa_ret.texts[2].label = "negative" /\ sa_ret.texts[2].conf = RatOne
    /\ sa_ret.result = Rat(-1, 2)
    /\ Len(classifier_calls) = 1

====
